---- MODULE Spec2Model ----
(***************************************************************************)
(* Model of the session-scoped upload store of Pixel Prompt (server.js).   *)
(*                                                                         *)
(* State: the uploadSessions Map (session id -> session object), the       *)
(* session objects themselves (a heap, because requests keep references to *)
(* session objects that may since have been removed from the Map), the     *)
(* uploads/ directory tree, the upload requests that multer is currently   *)
(* receiving, and the wall clock.                                          *)
(*                                                                         *)
(* Every synchronous piece of JavaScript is one atomic action.  An upload  *)
(* is several actions, because multer calls fileFilter/destination/        *)
(* filename once per file as the parts of the multipart body arrive, and   *)
(* the disk write that follows each filename callback completes            *)
(* asynchronously.                                                         *)
(***************************************************************************)
EXTENDS Integers, Sequences, FiniteSets, TLC

VARIABLES epoch, now, sweepDue, uploadSessions, heap, dirs, files, req, nextPart, resp

vars == <<epoch, now, sweepDue, uploadSessions, heap, dirs, files, req, nextPart, resp>>

----------------------------------------------------------------------------
(* Bounds of the model *)

Sessions == {"s1", "s2"}
Slots == {1, 2}
MaxParts == 2
MaxMs == 1
MaxJumps == 1
MaxHours == 1
MaxOver == 1
MaxResume == 4

(* The day on which the server is started: 1970-01-01 *)
StartDay == 0

(* Program constants *)

SECOND == 1000
MINUTE == 60 * SECOND
HOUR == 60 * MINUTE
DAY == 24 * HOUR
TTL == 24 * 60 * 60 * 1000

SweepPeriod_slow == 2 * 60 * 60 * 1000

(* setInterval(cleanupOldSessions, 60 * 60 * 1000) *)
SweepPeriod == 60 * 60 * 1000

(* The limits given to multer *)
limits_loose == [fileSize |-> 10 * 1024 * 1024, files |-> 21]

limits == [fileSize |-> 10 * 1024 * 1024, files |-> 20]

(* The kinds of file a client may send: a MIME type as its two halves,    *)
(* the extension of the original name and the size in bytes.               *)
FileKinds ==
  { [mimetype |-> <<"image", "png">>, ext |-> ".png", size |-> 1],
    [mimetype |-> <<"text", "plain">>, ext |-> ".txt", size |-> 1] }

(* Images at and just over the size limit *)
LargeKinds ==
  { [mimetype |-> <<"image", "png">>, ext |-> ".png", size |-> limits.fileSize + d] :
      d \in {0, 1} }

(* The errors handed to next(): MulterError with its code, or a plain      *)
(* Error with its message (for a failed open, its code).                    *)
NoError == [multer |-> FALSE, code |-> ""]
MulterError(code) == [multer |-> TRUE, code |-> code]
Error(message) == [multer |-> FALSE, code |-> message]

NULL == 0
ObjIds == 1 .. (Cardinality(Sessions) + Cardinality(Slots))
NoFolder == ""

----------------------------------------------------------------------------
(* Dates.  The clock counts the milliseconds since 00:00Z of the day on   *)
(* which the server was started; epoch is that day, as a number of days    *)
(* since 1970-01-01.  A Date is a reading of the clock.  The ISO form is   *)
(* the tuple of its printed fields, the calendar date (YYYY-MM-DD) being   *)
(* kept as the day number it denotes; a folder name is the string the code *)
(* builds.                                                                 *)

DayNumber(t) == epoch + t \div DAY

DateFields(t) ==
  << DayNumber(t), (t % DAY) \div HOUR, (t % HOUR) \div MINUTE,
     (t % MINUTE) \div SECOND, t % SECOND >>

toISOString(t) == DateFields(t)

DateParse(s) == (s[1] - epoch) * DAY + s[2] * HOUR + s[3] * MINUTE + s[4] * SECOND + s[5]

(* The civil date of a day number (days since 1970-01-01), as the getUTC  *)
(* methods of Date compute it.                                             *)
CivilFromDays(n) ==
  LET z   == n + 719468
      era == z \div 146097
      doe == z - era * 146097
      yoe == (doe - doe \div 1460 + doe \div 36524 - doe \div 146096) \div 365
      doy == doe - (365 * yoe + yoe \div 4 - yoe \div 100)
      mp  == (5 * doy + 2) \div 153
      d   == doy - (153 * mp + 2) \div 5 + 1
      m   == IF mp < 10 THEN mp + 3 ELSE mp - 9
  IN  [year |-> yoe + era * 400 + (IF m <= 2 THEN 1 ELSE 0), month |-> m, day |-> d]

getUTCFullYear(t) == CivilFromDays(DayNumber(t)).year
getUTCMonth(t) == CivilFromDays(DayNumber(t)).month - 1
getUTCDate(t) == CivilFromDays(DayNumber(t)).day
getUTCHours(t) == (t % DAY) \div HOUR
getUTCMinutes(t) == (t % HOUR) \div MINUTE
getUTCSeconds(t) == (t % MINUTE) \div SECOND
getUTCMilliseconds(t) == t % SECOND

padStart_none(s, targetLength, padString) == s

(* s.padStart(targetLength, padString), for a pad of one character *)
RECURSIVE padStart(_, _, _)
padStart(s, targetLength, padString) ==
  IF Len(s) >= targetLength THEN s
  ELSE padStart(padString \o s, targetLength, padString)

(* String(n): the decimal form of a natural number *)
String(n) == ToString(n)

(* The UTF-16 code units of String(n) and of the characters of the        *)
(* template                                                                *)
Char == [space |-> 32, hyphen |-> 45, zero |-> 48, colon |-> 58]

RECURSIVE CodeUnits(_)
CodeUnits(n) ==
  IF n < 10 THEN <<Char.zero + n>>
  ELSE CodeUnits(n \div 10) \o <<Char.zero + (n % 10)>>

(* A part of the result, as a string or as the sequence of its code units *)
Str(units, n) == IF units THEN CodeUnits(n) ELSE String(n)
Lit(units, c) ==
  IF units THEN <<Char[c]>>
  ELSE [space |-> " ", hyphen |-> "-", zero |-> "0", colon |-> ":"][c]

(* `${year}-${month}-${day} ${hours}:${minutes}:${seconds}:${milliseconds}` *)
Template(t, units) ==
  LET year         == getUTCFullYear(t)
      month        == padStart(Str(units, getUTCMonth(t) + 1), 2, Lit(units, "zero"))
      day          == padStart(Str(units, getUTCDate(t)), 2, Lit(units, "zero"))
      hours        == padStart(Str(units, getUTCHours(t)), 2, Lit(units, "zero"))
      minutes      == padStart(Str(units, getUTCMinutes(t)), 2, Lit(units, "zero"))
      seconds      == padStart(Str(units, getUTCSeconds(t)), 2, Lit(units, "zero"))
      milliseconds == padStart(Str(units, getUTCMilliseconds(t)), 3, Lit(units, "zero"))
  IN  Str(units, year) \o Lit(units, "hyphen") \o month \o Lit(units, "hyphen") \o
      day \o Lit(units, "space") \o hours \o Lit(units, "colon") \o
      minutes \o Lit(units, "colon") \o seconds \o Lit(units, "colon") \o
      milliseconds

generateTimestampFolder(t) == Template(t, FALSE)

(* The same string as the sequence of its code units *)
TemplateCodes(t) == Template(t, TRUE)

----------------------------------------------------------------------------
(* File names and the directory tree under uploads/ *)

ImageName(n, ext) == <<"image_", n, ext>>

startsWithImage(f) == f[1] = "image_"

existsSync(ds, folder) == folder \in ds

readdirSync(fs, folder) == {e[2] : e \in {x \in fs : x[1] = folder}}

ensureDirectoryExists(ds, folder) == ds \cup {folder}

(* fs.createWriteStream(path) followed by the piped payload: creates or   *)
(* truncates the file and leaves the payload in it.                        *)
writeFile(fs, folder, name, content) ==
  {x \in fs : ~(x[1] = folder /\ x[2] = name)} \cup {<<folder, name, content>>}

unlinkAll(fs, paths) == {x \in fs : <<x[1], x[2]>> \notin paths}

----------------------------------------------------------------------------
(* The session registry *)

has(reg, sid) == reg[sid] # NULL

Reachable(reg, rq) ==
  {reg[s] : s \in Sessions} \cup {rq[r].uploadSession : r \in Slots}

(* Session objects no longer referenced by the Map or by a request are    *)
(* garbage; they are dropped so that object ids can be reused.             *)
Collect(hp, reg, rq) ==
  [o \in (DOMAIN hp) \cap Reachable(reg, rq) |-> hp[o]]

FreshObj(hp) == CHOOSE o \in ObjIds : o \notin DOMAIN hp /\
                   \A p \in ObjIds : p \notin DOMAIN hp => o <= p

NewSession(folder, t) ==
  [ currentFolder |-> folder,
    uploadedFiles |-> <<>>,
    createdAt     |-> toISOString(t),
    lastActivity  |-> toISOString(t) ]

getUploadSession_stale(reg, hp, sid, requestedFolder, t) ==
  LET created == ~has(reg, sid)
      o       == IF created THEN FreshObj(hp) ELSE reg[sid]
      folder  == IF requestedFolder # NoFolder THEN requestedFolder
                 ELSE generateTimestampFolder(t)
  IN  [ reg     |-> IF created THEN [reg EXCEPT ![sid] = o] ELSE reg,
        heap    |-> IF created
                    THEN [p \in (DOMAIN hp) \cup {o} |->
                            IF p = o THEN NewSession(folder, t) ELSE hp[p]]
                    ELSE hp,
        session |-> o ]

(* getUploadSession(sessionId, requestedFolder) evaluated at time t on the *)
(* Map reg and heap hp: the Map and heap afterwards, and the object        *)
(* returned.                                                               *)
getUploadSession(reg, hp, sid, requestedFolder, t) ==
  LET created == ~has(reg, sid)
      o       == IF created THEN FreshObj(hp) ELSE reg[sid]
      folder  == IF requestedFolder # NoFolder THEN requestedFolder
                 ELSE generateTimestampFolder(t)
      hp1     == IF created
                 THEN [p \in (DOMAIN hp) \cup {o} |->
                         IF p = o THEN NewSession(folder, t) ELSE hp[p]]
                 ELSE hp
      reg1    == IF created THEN [reg EXCEPT ![sid] = o] ELSE reg
  IN  [ reg     |-> reg1,
        heap    |-> [hp1 EXCEPT ![o].lastActivity = toISOString(t)],
        session |-> o ]

----------------------------------------------------------------------------
(* Responses *)

(* The last response sent (for the reaper, the last sweep done).  status, *)
(* error, session, files, uploadFolder and total are the response; the     *)
(* other fields are bookkeeping for the claims: the request's batch, the   *)
(* folders and the number of records of the sessions the operation removed *)
(* from the Map, the number of files it unlinked, whether a deletion       *)
(* failed, the error the error handling middleware was given.              *)
NoResp ==
  [ op |-> "none", sid |-> "", uid |-> 0, status |-> 0,
    error |-> "", session |-> <<>>, files |-> <<>>, uploadFolder |-> NoFolder,
    total |-> 0, batch |-> <<>>, folders |-> {}, had |-> 0, unlinked |-> 0,
    failed |-> FALSE, solo |-> FALSE, cause |-> NoError,
    filename |-> <<>>, sent |-> <<>>, swept |-> FALSE, evicted |-> {} ]

Folders(reg, hp, sids) == {hp[reg[x]].currentFolder : x \in {y \in sids : has(reg, y)}}

RECURSIVE SumOver(_, _)
SumOver(f, S) ==
  IF S = {} THEN 0
  ELSE LET x == CHOOSE y \in S : TRUE IN f[x] + SumOver(f, S \ {x})

Records(reg, hp, sids) ==
  SumOver([x \in Sessions |-> IF has(reg, x) THEN Len(hp[reg[x]].uploadedFiles) ELSE 0],
          sids)

(* The body of GET /api/session/:sessionId : <<>> stands for session: null *)
SessionView(reg, hp, sid) ==
  IF has(reg, sid)
  THEN << [ sessionId     |-> sid,
            currentFolder |-> hp[reg[sid]].currentFolder,
            uploadedFiles |-> hp[reg[sid]].uploadedFiles,
            createdAt     |-> hp[reg[sid]].createdAt,
            lastActivity  |-> hp[reg[sid]].lastActivity,
            totalFiles    |-> Len(hp[reg[sid]].uploadedFiles) ] >>
  ELSE <<>>

----------------------------------------------------------------------------
(* Upload requests *)

(* pc: "idle" or "recv".  sid/folder: the x-session-id and x-upload-folder *)
(* headers.  batch: the parts of the body; idx: how many of them multer    *)
(* has seen.  stored: the files handed to the disk storage, in request     *)
(* order, each with the destination and filename it was given; pending:    *)
(* those whose write has not completed; finished: those whose write has.   *)
(* errorOccured/error: whether multer is aborting the request, and with    *)
(* which error.                                                            *)
(* uploadPath/uploadSession/sessionId: the properties destination() puts   *)
(* on req.  uid numbers the payloads (see Payload).  solo and m are        *)
(* bookkeeping for the claims: whether the request has run alone, and how  *)
(* many image_ files its folder held when its first file was named.        *)
(* before is bookkeeping too: what a fetch of the session would have       *)
(* answered, and the disk, when the request began; it is kept while the    *)
(* request is solo.                                                        *)
NoSnapshot == [session |-> <<>>, dirs |-> {}, files |-> {}]

Snapshot(reg, hp, sid, ds, fs) ==
  [session |-> SessionView(reg, hp, sid), dirs |-> ds, files |-> fs]

IdleReq ==
  [ pc |-> "idle", sid |-> "", folder |-> NoFolder, batch |-> <<>>,
    idx |-> 0, stored |-> <<>>, pending |-> {}, finished |-> {},
    errorOccured |-> FALSE, error |-> NoError, uploadPath |-> NoFolder,
    uploadSession |-> NULL, sessionId |-> "", uid |-> 0, solo |-> TRUE, m |-> 0,
    before |-> NoSnapshot, swept |-> FALSE, resumed |-> FALSE ]

Batches(n) == UNION {[1 .. m -> FileKinds] : m \in 0 .. n}

KnownFolders == dirs \cup {heap[o].currentFolder : o \in DOMAIN heap}

InFlight(rq) == {r \in Slots : rq[r].pc # "idle"}

(* Bookkeeping for the claims: a request stays solo while nothing but its *)
(* own steps and the clock has run since it began.                         *)
Disturb(rq) ==
  [r \in Slots |-> IF rq[r].pc # "idle"
                   THEN [rq[r] EXCEPT !.solo = FALSE, !.before = NoSnapshot]
                   ELSE rq[r]]

(* The requests after a sweep that evicted the sessions of evicted: a      *)
(* request in flight for one of them remembers it.                         *)
Swept(rq, evicted) ==
  [r \in Slots |-> IF rq[r].pc # "idle" /\ rq[r].sid \in evicted
                   THEN [Disturb(rq)[r] EXCEPT !.swept = TRUE]
                   ELSE Disturb(rq)[r]]

(* The requests after slot r has taken a step that leaves it as newr. *)
StepReq(r, newr) ==
  [q \in Slots |->
     IF q = r
     THEN IF newr.pc = "idle" THEN newr
          ELSE IF newr.solo /\ InFlight(req) \subseteq {r} THEN newr
          ELSE [newr EXCEPT !.solo = FALSE, !.before = NoSnapshot]
     ELSE Disturb(req)[q]]

SoloNow(r) == req[r].solo /\ InFlight(req) \subseteq {r}

----------------------------------------------------------------------------
(* The server is started at 00:00Z of day e. *)
Start(e) ==
  /\ epoch = e
  /\ now = 0
  /\ sweepDue = SweepPeriod
  /\ uploadSessions = [s \in Sessions |-> NULL]
  /\ heap = << >>
  /\ dirs = {}
  /\ files = {}
  /\ req = [r \in Slots |-> IdleReq]
  /\ nextPart = 1
  /\ resp = NoResp

Init == Start(StartDay)

----------------------------------------------------------------------------
(* The clock *)

(* Time passes by d milliseconds, within the instants the model follows. *)
Tick(d, instants) ==
  /\ now + d \in instants
  /\ now' = now + d
  /\ UNCHANGED <<epoch, sweepDue, uploadSessions, heap, dirs, files, req, nextPart, resp>>

----------------------------------------------------------------------------
(* GET /api/session/:sessionId *)

FetchSession_touching(sid) ==
  LET g == getUploadSession(uploadSessions, heap, sid, NoFolder, now)
  IN  /\ uploadSessions' = g.reg
      /\ heap' = g.heap
      /\ resp' = [NoResp EXCEPT !.op = "fetch", !.sid = sid, !.status = 200,
                                !.session = SessionView(g.reg, g.heap, sid)]
      /\ req' = Disturb(req)
      /\ UNCHANGED <<epoch, now, sweepDue, dirs, files, nextPart>>

FetchSession(sid) ==
  /\ resp' = [NoResp EXCEPT !.op = "fetch", !.sid = sid, !.status = 200,
                            !.session = SessionView(uploadSessions, heap, sid)]
  /\ req' = Disturb(req)
  /\ UNCHANGED <<epoch, now, sweepDue, uploadSessions, heap, dirs, files, nextPart>>

(* GET /api/download/:sessionId/:filename.  The answer of the handler    *)
(* evaluated on the Map reg, the heap hp and the files fs: sent is the     *)
(* path handed to sendFile.                                                *)

find(records, name) ==
  LET hits == {i \in 1 .. Len(records) : records[i].filename = name}
  IN  IF hits = {} THEN <<>>
      ELSE << records[CHOOSE i \in hits : \A j \in hits : i <= j] >>

download_anyFolder(reg, hp, fs, sid, name) ==
  IF \E x \in fs : x[2] = name
  THEN [status |-> 200, error |-> "",
        sent |-> CHOOSE path \in {<<x[1], x[2]>> : x \in fs} : path[2] = name]
  ELSE [status |-> 404, error |-> "File not found on disk", sent |-> <<>>]

download(reg, hp, fs, sid, name) ==
  IF ~has(reg, sid)
  THEN [status |-> 404, error |-> "Session not found", sent |-> <<>>]
  ELSE LET session == hp[reg[sid]]
           file    == find(session.uploadedFiles, name)
       IN  IF file = <<>>
           THEN [status |-> 404, error |-> "File not found", sent |-> <<>>]
           ELSE IF name \notin readdirSync(fs, file[1].uploadFolder)
           THEN [status |-> 404, error |-> "File not found on disk", sent |-> <<>>]
           ELSE [status |-> 200, error |-> "",
                 sent |-> <<file[1].uploadFolder, name>>]

Download_touching(sid, name) ==
  LET answer == download(uploadSessions, heap, files, sid, name)
  IN  /\ resp' = [NoResp EXCEPT !.op = "download", !.sid = sid, !.filename = name,
                                !.status = answer.status, !.error = answer.error,
                                !.sent = answer.sent]
      /\ req' = Disturb(req)
      /\ heap' = IF has(uploadSessions, sid)
                 THEN [heap EXCEPT ![uploadSessions[sid]].lastActivity = toISOString(now)]
                 ELSE heap
      /\ UNCHANGED <<epoch, now, sweepDue, uploadSessions, dirs, files, nextPart>>

Download(sid, name) ==
  LET answer == download(uploadSessions, heap, files, sid, name)
  IN  /\ resp' = [NoResp EXCEPT !.op = "download", !.sid = sid, !.filename = name,
                                !.status = answer.status, !.error = answer.error,
                                !.sent = answer.sent]
      /\ req' = Disturb(req)
      /\ UNCHANGED <<epoch, now, sweepDue, uploadSessions, heap, dirs, files, nextPart>>

(* POST /api/session/:sessionId/new-upload *)

delete_kept(reg, sid) == reg

(* uploadSessions.delete(sessionId) *)
delete(reg, sid) == [reg EXCEPT ![sid] = NULL]

Rotate(sid) ==
  LET reg0 == delete(uploadSessions, sid)
      hp0  == Collect(heap, reg0, req)
      g    == getUploadSession(reg0, hp0, sid, NoFolder, now)
  IN  /\ uploadSessions' = g.reg
      /\ heap' = g.heap
      /\ resp' = [NoResp EXCEPT !.op = "rotate", !.sid = sid, !.status = 200,
                    !.folders = Folders(uploadSessions, heap, {sid}),
                    !.had = Records(uploadSessions, heap, {sid}),
                    !.session = << [ sessionId |-> sid,
                                     currentFolder |-> g.heap[g.session].currentFolder,
                                     uploadedFiles |-> <<>>,
                                     createdAt |-> g.heap[g.session].createdAt ] >>]
      /\ req' = Disturb(req)
      /\ UNCHANGED <<epoch, now, sweepDue, dirs, files, nextPart>>

(* cleanupOldSessions, the callback of the interval timer: what it does   *)
(* to everything but the timer.                                            *)

Expired_inclusive(hp, o, t) == DateParse(hp[o].lastActivity) <= t - TTL

Expired(hp, o, t) == DateParse(hp[o].lastActivity) < t - TTL

cleanupOldSessions_deleting ==
  LET evicted == {s \in Sessions : has(uploadSessions, s) /\
                                      Expired(heap, uploadSessions[s], now)}
      reg1 == [s \in Sessions |-> IF s \in evicted THEN NULL ELSE uploadSessions[s]]
      lost == Folders(uploadSessions, heap, evicted)
  IN  /\ uploadSessions' = reg1
      /\ heap' = Collect(heap, reg1, req)
      /\ files' = {x \in files : x[1] \notin lost}
      /\ dirs' = dirs \ lost
      /\ resp' = [NoResp EXCEPT !.op = "sweep", !.evicted = evicted,
                    !.folders = lost,
                    !.had = Records(uploadSessions, heap, evicted)]
      /\ req' = Swept(req, evicted)
      /\ UNCHANGED <<epoch, now, nextPart>>

cleanupOldSessions ==
  LET evicted == {s \in Sessions : has(uploadSessions, s) /\
                                      Expired(heap, uploadSessions[s], now)}
      reg1 == [s \in Sessions |-> IF s \in evicted THEN NULL ELSE uploadSessions[s]]
  IN  /\ uploadSessions' = reg1
      /\ heap' = Collect(heap, reg1, req)
      /\ resp' = [NoResp EXCEPT !.op = "sweep", !.evicted = evicted,
                    !.folders = Folders(uploadSessions, heap, evicted),
                    !.had = Records(uploadSessions, heap, evicted)]
      /\ req' = Swept(req, evicted)
      /\ UNCHANGED <<epoch, now, dirs, files, nextPart>>

(* The reaper runs at an instant the model does not fix: the phase of the *)
(* interval against the requests is left open.                             *)
Reap == cleanupOldSessions /\ UNCHANGED sweepDue

(* The interval timer fires when it is due and is armed again one period  *)
(* later.                                                                  *)
IntervalFires ==
  /\ now = sweepDue
  /\ cleanupOldSessions
  /\ sweepDue' = sweepDue + SweepPeriod

----------------------------------------------------------------------------
(* POST /api/upload : upload.array('files') and the route handler *)

(* A request with headers x-session-id: sid, x-upload-folder: rf and the  *)
(* parts of batch begins to arrive, in the lowest free slot.               *)
BeginUpload(r, sid, rf, batch) ==
  /\ req[r].pc = "idle"
  /\ \A q \in Slots : q < r => req[q].pc # "idle"
  /\ req' = StepReq(r, [IdleReq EXCEPT !.pc = "recv", !.sid = sid,
                          !.folder = rf, !.batch = batch, !.uid = nextPart,
                          !.before = Snapshot(uploadSessions, heap, sid, dirs, files)])
  /\ nextPart' = nextPart + Len(batch)
  /\ UNCHANGED <<epoch, now, sweepDue, uploadSessions, heap, dirs, files, resp>>

StartUpload(r, sid, rf, batch) ==
  /\ nextPart + Len(batch) <= MaxParts + 1
  /\ BeginUpload(r, sid, rf, batch)

(* multer's abortWithError: the first error of a request is the one that  *)
(* is reported.                                                            *)
abortWithError(q, e) ==
  IF q.errorOccured THEN q ELSE [q EXCEPT !.errorOccured = TRUE, !.error = e]

fileFilter_any(file) == TRUE

fileFilter(file) == file.mimetype[1] = "image"

(* storage.filename: the name given to a file about to be stored in dir *)
filename(fs, dir, file) ==
  LET existingFiles == readdirSync(fs, dir)
      imageFiles    == {f \in existingFiles : startsWithImage(f)}
      nextNumber    == Cardinality(imageFiles) + 1
  IN  ImageName(nextNumber, file.ext)

(* The next part of the body reaches multer.  A part beyond limits.files  *)
(* is skipped and the request aborted.  Otherwise fileFilter, then for an  *)
(* accepted file storage.destination and storage.filename, after which     *)
(* the write of the file is started; a file longer than limits.fileSize    *)
(* is cut at the limit and the request aborted.                            *)
FileEvent(r) ==
  LET q    == req[r]
      k    == q.idx + 1
      file == q.batch[k]
      g    == getUploadSession(uploadSessions, heap, q.sid, q.folder, now)
      dest == g.heap[g.session].currentFolder
      name == filename(files, dest, file)
  IN  /\ q.pc = "recv"
      /\ q.idx < Len(q.batch)
      /\ IF k > limits.files
         THEN /\ req' = StepReq(r, abortWithError([q EXCEPT !.idx = k],
                                                  MulterError("LIMIT_FILE_COUNT")))
              /\ UNCHANGED <<uploadSessions, heap, dirs>>
         ELSE IF fileFilter(file)
         THEN /\ uploadSessions' = g.reg
              /\ dirs' = ensureDirectoryExists(dirs, dest)
              /\ LET q1 == [q EXCEPT !.idx = k,
                              !.uploadPath = dest,
                              !.uploadSession = g.session,
                              !.sessionId = q.sid,
                              !.stored = Append(@, [idx |-> k, destination |-> dest,
                                                    filename |-> name]),
                              !.pending = @ \cup {k},
                              !.resumed = @ \/ (~has(uploadSessions, q.sid) /\
                                                 q.folder # NoFolder /\
                                                 existsSync(dirs, q.folder)),
                              !.m = IF q.stored = <<>>
                                    THEN Cardinality({f \in readdirSync(files, dest) :
                                                        startsWithImage(f)})
                                    ELSE @]
                     q2 == IF file.size > limits.fileSize
                           THEN abortWithError(q1, MulterError("LIMIT_FILE_SIZE"))
                           ELSE q1
                 IN  /\ req' = StepReq(r, q2)
                     /\ heap' = Collect(g.heap, g.reg, req')
         ELSE /\ req' = StepReq(r, abortWithError([q EXCEPT !.idx = k],
                                      Error("Only image files are allowed!")))
              /\ UNCHANGED <<uploadSessions, heap, dirs>>
      /\ UNCHANGED <<epoch, now, sweepDue, files, nextPart, resp>>

(* The payload of a part is identified by its number among all the parts  *)
(* ever sent; uid is the number of the first part of the request.          *)
Payload(q, k) == q.uid + k - 1

StoredEntry(q, k) == CHOOSE e \in {q.stored[i] : i \in 1 .. Len(q.stored)} : e.idx = k

(* The write stream of file k opens its path and the payload is written;  *)
(* a path whose directory has been removed cannot be opened and the        *)
(* upload is aborted.                                                      *)
WriteFile(r, k) ==
  LET q == req[r]
      e == StoredEntry(q, k)
  IN  /\ q.pc = "recv"
      /\ k \in q.pending
      /\ IF existsSync(dirs, e.destination)
         THEN /\ files' = writeFile(files, e.destination, e.filename, Payload(q, k))
              /\ req' = StepReq(r, [q EXCEPT !.pending = @ \ {k},
                                             !.finished = @ \cup {k}])
         ELSE /\ files' = files
              /\ req' = StepReq(r, abortWithError([q EXCEPT !.pending = @ \ {k}],
                                                  Error("ENOENT")))
      /\ UNCHANGED <<epoch, now, sweepDue, uploadSessions, heap, dirs, nextPart, resp>>

(* req.files as the route handler sees it *)
ReqFiles_reversed(q) ==
  [i \in 1 .. Len(q.stored) |->
     LET e == q.stored[Len(q.stored) + 1 - i]
     IN  [ originalName |-> Payload(q, e.idx),
           filename     |-> e.filename,
           path         |-> <<e.destination, e.filename>>,
           mimetype     |-> q.batch[e.idx].mimetype ]]

ReqFiles(q) ==
  [i \in 1 .. Len(q.stored) |->
     [ originalName |-> Payload(q, q.stored[i].idx),
       filename     |-> q.stored[i].filename,
       path         |-> <<q.stored[i].destination, q.stored[i].filename>>,
       mimetype     |-> q.batch[q.stored[i].idx].mimetype ]]

UploadHandler_creating(r) ==
  LET q  == req[r]
      o  == q.uploadSession
      rf == ReqFiles(q)
      uploadedFiles ==
        [i \in 1 .. Len(rf) |->
           [ originalName |-> rf[i].originalName,
             filename     |-> rf[i].filename,
             path         |-> rf[i].path,
             mimetype     |-> rf[i].mimetype,
             uploadFolder |-> heap[o].currentFolder,
             sessionId    |-> q.sessionId ]]
      hp1  == [heap EXCEPT ![o].uploadedFiles = @ \o uploadedFiles]
      reg1 == [uploadSessions EXCEPT ![q.sessionId] = o]
  IN  /\ q.pc = "recv"
      /\ q.idx = Len(q.batch)
      /\ q.pending = {}
      /\ ~q.errorOccured
      /\ req' = StepReq(r, IdleReq)
      /\ IF Len(rf) = 0
         THEN /\ resp' = [NoResp EXCEPT !.op = "upload", !.sid = q.sid,
                            !.uid = q.uid, !.batch = q.batch, !.status = 400,
                            !.error = "No files uploaded", !.solo = SoloNow(r)]
              /\ uploadSessions' =
                   getUploadSession(uploadSessions, heap, q.sid, q.folder, now).reg
              /\ heap' = Collect(
                   getUploadSession(uploadSessions, heap, q.sid, q.folder, now).heap,
                   uploadSessions', req')
         ELSE /\ uploadSessions' = reg1
              /\ heap' = Collect(hp1, reg1, req')
              /\ resp' = [NoResp EXCEPT !.op = "upload", !.sid = q.sessionId,
                            !.uid = q.uid, !.batch = q.batch, !.status = 200,
                            !.files = uploadedFiles,
                            !.uploadFolder = heap[o].currentFolder,
                            !.total = Len(hp1[o].uploadedFiles),
                            !.solo = SoloNow(r)]
      /\ UNCHANGED <<epoch, now, sweepDue, dirs, files, nextPart>>

set_ignored(reg, sid, o) == reg

(* uploadSessions.set(sessionId, session) *)
set(reg, sid, o) == [reg EXCEPT ![sid] = o]

(* The route handler, run once every part has been received and written *)
UploadHandler(r) ==
  LET q  == req[r]
      o  == q.uploadSession
      rf == ReqFiles(q)
      uploadedFiles ==
        [i \in 1 .. Len(rf) |->
           [ originalName |-> rf[i].originalName,
             filename     |-> rf[i].filename,
             path         |-> rf[i].path,
             mimetype     |-> rf[i].mimetype,
             uploadFolder |-> heap[o].currentFolder,
             sessionId    |-> q.sessionId ]]
      hp1  == [heap EXCEPT ![o].uploadedFiles = @ \o uploadedFiles]
      reg1 == set(uploadSessions, q.sessionId, o)
  IN  /\ q.pc = "recv"
      /\ q.idx = Len(q.batch)
      /\ q.pending = {}
      /\ ~q.errorOccured
      /\ req' = StepReq(r, IdleReq)
      /\ IF Len(rf) = 0
         THEN /\ resp' = [NoResp EXCEPT !.op = "upload", !.sid = q.sid,
                            !.uid = q.uid, !.batch = q.batch, !.status = 400,
                            !.error = "No files uploaded", !.solo = SoloNow(r)]
              /\ heap' = Collect(heap, uploadSessions, req')
              /\ UNCHANGED uploadSessions
         ELSE /\ uploadSessions' = reg1
              /\ heap' = Collect(hp1, reg1, req')
              /\ resp' = [NoResp EXCEPT !.op = "upload", !.sid = q.sessionId,
                            !.uid = q.uid, !.batch = q.batch, !.status = 200,
                            !.files = uploadedFiles,
                            !.uploadFolder = heap[o].currentFolder,
                            !.total = Len(hp1[o].uploadedFiles),
                            !.swept = q.swept,
                            !.solo = SoloNow(r)]
      /\ UNCHANGED <<epoch, now, sweepDue, dirs, files, nextPart>>

(* The error handling middleware *)
errorMiddleware(error) ==
  IF error.multer /\ error.code = "LIMIT_FILE_SIZE"
  THEN [status |-> 400, error |-> "File too large"]
  ELSE IF error.multer /\ error.code = "LIMIT_FILE_COUNT"
  THEN [status |-> 400, error |-> "Too many files"]
  ELSE [status |-> 500, error |-> "Internal server error"]

(* multer gives up on a request in error once no write is outstanding: it *)
(* unlinks the files it has stored and passes the error to the error       *)
(* handling middleware.                                                    *)
UploadAbort(r) ==
  LET q == req[r]
      paths == {<<StoredEntry(q, k).destination, StoredEntry(q, k).filename>> :
                  k \in q.finished}
  IN  /\ q.pc = "recv"
      /\ q.errorOccured
      /\ q.pending = {}
      /\ files' = unlinkAll(files, paths)
      /\ req' = StepReq(r, IdleReq)
      /\ heap' = Collect(heap, uploadSessions, req')
      /\ resp' = [NoResp EXCEPT !.op = "upload", !.sid = q.sid,
                    !.uid = q.uid, !.batch = q.batch,
                    !.status = errorMiddleware(q.error).status,
                    !.error = errorMiddleware(q.error).error,
                    !.cause = q.error,
                    !.unlinked = Cardinality({x \in files : <<x[1], x[2]>> \in paths}),
                    !.solo = SoloNow(r)]
      /\ UNCHANGED <<epoch, now, sweepDue, uploadSessions, dirs, nextPart>>

----------------------------------------------------------------------------
(* POST /api/session/:sessionId/clear *)

FolderEntries(fs, folder) == {x \in fs : x[1] = folder}

(* What the try block can leave behind: outcome "ok" removes every file  *)
(* and the folder; "unlink" fails on one file after the files of gone have *)
(* been removed (readdirSync fixes no order); "rmdir" removes the files    *)
(* but fails on the folder.                                                *)
rmdirSync_skipped(ds, folder, outcome) == ds

rmdirSync(ds, folder, outcome) == IF outcome = "ok" THEN ds \ {folder} ELSE ds

clearRegistry_unlessFailed(reg, sid, outcome) ==
  IF outcome = "ok" THEN delete(reg, sid) ELSE reg

(* The Map after the try/catch: the entry goes whatever the outcome *)
clearRegistry(reg, sid, outcome) == delete(reg, sid)

ClearSession_strict(sid, outcome, gone) ==
  LET o      == uploadSessions[sid]
      folder == heap[o].currentFolder
      there  == FolderEntries(files, folder)
      reg1   == clearRegistry(uploadSessions, sid, outcome)
      tried  == has(uploadSessions, sid) /\ existsSync(dirs, folder)
  IN  /\ IF tried
         THEN /\ \/ outcome = "ok" /\ gone = there
                 \/ outcome = "unlink" /\ gone \subseteq there /\ gone # there
                 \/ outcome = "rmdir" /\ gone = there
              /\ files' = files \ gone
              /\ dirs' = rmdirSync(dirs, folder, outcome)
         ELSE /\ outcome = "ok"
              /\ gone = {}
              /\ UNCHANGED <<files, dirs>>
      /\ uploadSessions' = reg1
      /\ req' = Disturb(req)
      /\ heap' = Collect(heap, reg1, req')
      /\ resp' = [NoResp EXCEPT !.op = "clear", !.sid = sid,
                    !.status = IF has(uploadSessions, sid) THEN 200 ELSE 404,
                    !.folders = Folders(uploadSessions, heap, {sid}),
                    !.had = Records(uploadSessions, heap, {sid}),
                    !.unlinked = Cardinality(gone),
                    !.failed = (outcome # "ok")]
      /\ UNCHANGED <<epoch, now, sweepDue, nextPart>>

ClearSession(sid, outcome, gone) ==
  LET o      == uploadSessions[sid]
      folder == heap[o].currentFolder
      there  == FolderEntries(files, folder)
      reg1   == clearRegistry(uploadSessions, sid, outcome)
      tried  == has(uploadSessions, sid) /\ existsSync(dirs, folder)
  IN  /\ IF tried
         THEN /\ \/ outcome = "ok" /\ gone = there
                 \/ outcome = "unlink" /\ gone \subseteq there /\ gone # there
                 \/ outcome = "rmdir" /\ gone = there
              /\ files' = files \ gone
              /\ dirs' = rmdirSync(dirs, folder, outcome)
         ELSE /\ outcome = "ok"
              /\ gone = {}
              /\ UNCHANGED <<files, dirs>>
      /\ uploadSessions' = reg1
      /\ req' = Disturb(req)
      /\ heap' = Collect(heap, reg1, req')
      /\ resp' = [NoResp EXCEPT !.op = "clear", !.sid = sid, !.status = 200,
                    !.folders = Folders(uploadSessions, heap, {sid}),
                    !.had = Records(uploadSessions, heap, {sid}),
                    !.unlinked = Cardinality(gone),
                    !.failed = (outcome # "ok")]
      /\ UNCHANGED <<epoch, now, sweepDue, nextPart>>

ClearOutcomes == {"ok", "unlink", "rmdir"}

----------------------------------------------------------------------------
(* One client: one upload at a time, interleaved with every other        *)
(* request of its session, within a few milliseconds.                      *)
Next ==
  \/ Tick(1, 0 .. MaxMs)
  \/ FetchSession("s1")
  \/ Rotate("s1")
  \/ \E outcome \in ClearOutcomes, gone \in SUBSET files :
        ClearSession("s1", outcome, gone)
  \/ Reap
  \/ \E batch \in Batches(MaxParts) : StartUpload(1, "s1", NoFolder, batch)
  \/ FileEvent(1)
  \/ \E k \in 1 .. MaxParts : WriteFile(1, k)
  \/ UploadHandler(1)
  \/ UploadAbort(1)

Spec == Init /\ [][Next]_vars

(* Concurrent uploads to one session. *)
NextRace ==
  \/ FetchSession("s1")
  \/ Rotate("s1")
  \/ \E outcome \in ClearOutcomes, gone \in SUBSET files :
        ClearSession("s1", outcome, gone)
  \/ \E r \in Slots, rf \in {NoFolder} \cup KnownFolders, batch \in Batches(MaxParts) :
        StartUpload(r, "s1", rf, batch)
  \/ \E r \in Slots : FileEvent(r)
  \/ \E r \in Slots, k \in 1 .. MaxParts : WriteFile(r, k)
  \/ \E r \in Slots : UploadHandler(r)
  \/ \E r \in Slots : UploadAbort(r)

SpecRace == Init /\ [][NextRace]_vars

(* Two clients and the idle reaper: the clock runs over hours and days,  *)
(* and one image is uploaded, into a folder the client names or not.       *)
Instants ==
  {j * TTL + h * HOUR : j \in 0 .. MaxJumps, h \in {0, MaxHours}} \cup
  {j * TTL + m : j \in 0 .. MaxJumps, m \in 0 .. MaxMs}

ImageBatches == {b \in Batches(1) : \A i \in 1 .. Len(b) : fileFilter(b[i])}

NextTTL ==
  \/ \E d \in {1, MaxHours * HOUR, TTL} : Tick(d, Instants)
  \/ \E sid \in Sessions : FetchSession(sid)
  \/ \E sid \in Sessions : Rotate(sid)
  \/ Reap
  \/ \E sid \in Sessions, rf \in {NoFolder} \cup KnownFolders, batch \in ImageBatches :
        nextPart = 1 /\ StartUpload(1, sid, rf, batch)
  \/ FileEvent(1)
  \/ WriteFile(1, 1)
  \/ UploadHandler(1)

SpecTTL == Init /\ [][NextTTL]_vars

(* The reaper on its schedule, for as long as it takes a session to be   *)
(* evicted: time does not pass an instant at which the timer is due        *)
(* before the timer has fired, and a request takes less than an hour.      *)
SchedInstants ==
  {h * HOUR + m : h \in 0 .. (TTL \div HOUR + MaxHours + 1), m \in 0 .. MaxMs}

NextSched ==
  \/ \E d \in {1} \cup {HOUR - m : m \in 0 .. MaxMs} :
        /\ now + d <= sweepDue
        /\ d = 1 \/ InFlight(req) = {}
        /\ Tick(d, SchedInstants)
  \/ IntervalFires
  \/ FetchSession("s1")
  \/ Rotate("s1")
  \/ \E batch \in ImageBatches : nextPart = 1 /\ StartUpload(1, "s1", NoFolder, batch)
  \/ FileEvent(1)
  \/ WriteFile(1, 1)
  \/ UploadHandler(1)

SpecSched == Init /\ [][NextSched]_vars

(* Uploads at the limits: one request of one client, of up to MaxOver     *)
(* files more or fewer than limits.files, one of which may be at or over   *)
(* limits.fileSize.  The writes of the request complete in the order in    *)
(* which they were started, and the parts arrive either before any write   *)
(* has completed or after every write started has.                         *)
SmallImage == [mimetype |-> <<"image", "png">>, ext |-> ".png", size |-> 1]

LimitBatches ==
  LET lengths == {1} \cup ((limits.files - MaxOver) .. (limits.files + MaxOver))
  IN  {[i \in 1 .. n |-> SmallImage] : n \in lengths} \cup
      UNION {{[i \in 1 .. n |-> IF i = p THEN f ELSE SmallImage] :
                p \in {1, n}, f \in LargeKinds} : n \in lengths}

NextLimits ==
  \/ \E batch \in LimitBatches : nextPart = 1 /\ BeginUpload(1, "s1", NoFolder, batch)
  \/ (req[1].pending = {} \/ req[1].finished = {}) /\ FileEvent(1)
  \/ \E k \in 1 .. limits.files :
        (\A j \in req[1].pending : k <= j) /\ WriteFile(1, k)
  \/ UploadHandler(1)
  \/ UploadAbort(1)
  \/ FetchSession("s1")

SpecLimits == Init /\ [][NextLimits]_vars

----------------------------------------------------------------------------
(* Properties *)

IsImageMime(file) == file.mimetype[1] = "image"

AllImages(batch) == \A j \in 1 .. Len(batch) : IsImageMime(batch[j])

Session(reg, hp, sid) == hp[reg[sid]]

(* C1: a batch of image files ingested with nothing else running, into a  *)
(* folder that held m image_ files, has its i-th file named image_(m+i).   *)
C1_SequentialNaming ==
  \A r \in Slots :
    (req[r].pc = "recv" /\ req[r].solo /\ AllImages(req[r].batch))
      => \A i \in 1 .. Len(req[r].stored) :
           req[r].stored[i].filename = ImageName(req[r].m + i, req[r].batch[i].ext)

(* C2: no write of an upload replaces a file that another upload stored.  *)
C2_NoOverwrite ==
  [][\A r \in Slots, k \in 1 .. MaxParts :
       WriteFile(r, k) =>
         \A x \in files :
           (x[1] = StoredEntry(req[r], k).destination /\
            x[2] = StoredEntry(req[r], k).filename)
             => x[3] \in {Payload(req[r], j) : j \in 1 .. Len(req[r].batch)}]_vars

(* C3: a fetch changes neither the Map, nor a session object, nor the     *)
(* disk, and answers what a fetch made right after it answers.             *)
C3_FetchPureRead ==
  [][\A sid \in Sessions :
       FetchSession(sid) =>
         /\ uploadSessions' = uploadSessions
         /\ heap' = heap
         /\ dirs' = dirs /\ files' = files
         /\ resp'.session = SessionView(uploadSessions, heap, sid)
         /\ resp'.session = SessionView(uploadSessions', heap', sid)]_vars

C3_Witness ==
  /\ resp.op = "fetch" /\ resp.sid = "s1" /\ resp.session = <<>>
  /\ ~has(uploadSessions, "s1")
  /\ has(uploadSessions, "s2")
  /\ Len(Session(uploadSessions, heap, "s2").uploadedFiles) > 0

(* C4: after a rotate the session is registered with no files and with a  *)
(* folder other than the one it had before.                                *)
C4_RotateFresh ==
  [][\A sid \in Sessions :
       Rotate(sid) =>
         /\ has(uploadSessions', sid)
         /\ Session(uploadSessions', heap', sid).uploadedFiles = <<>>
         /\ has(uploadSessions, sid) =>
              Session(uploadSessions', heap', sid).currentFolder
                # Session(uploadSessions, heap, sid).currentFolder]_vars

(* C5: a rotate leaves the disk as it is, and a fetch made after it       *)
(* reports none of the files recorded before.                              *)
C5_RotateOrphans ==
  [][\A sid \in Sessions :
       Rotate(sid) =>
         /\ dirs' = dirs /\ files' = files
         /\ SessionView(uploadSessions', heap', sid) # <<>>
         /\ SessionView(uploadSessions', heap', sid)[1].uploadedFiles = <<>>]_vars

C5_Witness ==
  /\ resp.op = "rotate" /\ resp.had > 0
  /\ \E f \in resp.folders : FolderEntries(files, f) # {}
  /\ SessionView(uploadSessions, heap, resp.sid)[1].uploadedFiles = <<>>

(* C6: a clear in which no deletion fails leaves the session's folder     *)
(* absent from the disk and the session absent for a fetch.                *)
C6_ClearRemoves ==
  [][\A sid \in Sessions, gone \in SUBSET files :
       ClearSession(sid, "ok", gone) =>
         /\ has(uploadSessions, sid) =>
              ~existsSync(dirs', Session(uploadSessions, heap, sid).currentFolder)
         /\ has(uploadSessions, sid) =>
              FolderEntries(files', Session(uploadSessions, heap, sid).currentFolder) = {}
         /\ SessionView(uploadSessions', heap', sid) = <<>>]_vars

C6_Witness ==
  /\ resp.op = "clear" /\ ~resp.failed /\ resp.had >= 1 /\ resp.unlinked >= 1
  /\ \A f \in resp.folders : ~existsSync(dirs, f)
  /\ SessionView(uploadSessions, heap, resp.sid) = <<>>

(* C7: a clear of a registered session in which a deletion fails still    *)
(* removes the session from the Map and still answers success.             *)
C7_ClearBestEffort ==
  [][\A sid \in Sessions, outcome \in ClearOutcomes \ {"ok"}, gone \in SUBSET files :
       ClearSession(sid, outcome, gone) =>
         /\ ~has(uploadSessions', sid)
         /\ resp'.status = 200]_vars

C7_Witness ==
  /\ resp.op = "clear" /\ resp.failed /\ resp.status = 200
  /\ ~has(uploadSessions, resp.sid)
  /\ \E f \in resp.folders : FolderEntries(files, f) # {}

Idle(hp, o, t) == t - DateParse(hp[o].lastActivity)

(* C8: a sweep removes exactly the sessions idle for more than 24 hours.  *)
C8_TTLBoundary ==
  [][cleanupOldSessions =>
       \A s \in Sessions :
         has(uploadSessions', s) <=>
           (has(uploadSessions, s) /\ Idle(heap, uploadSessions[s], now) <= 24 * HOUR)]_vars

(* one sweep that evicts a session idle for 24 h and 1 ms and keeps one   *)
(* idle for exactly 24 h                                                   *)
C8_Witness ==
  /\ resp.op = "sweep" /\ resp.folders # {}
  /\ \E s \in Sessions : has(uploadSessions, s) /\
                         Idle(heap, uploadSessions[s], now) = 24 * HOUR

(* C9: a sweep changes nothing on disk and nothing of the sessions it     *)
(* keeps.                                                                  *)
C9_SweepOnlyRemoves ==
  [][cleanupOldSessions =>
       /\ dirs' = dirs /\ files' = files
       /\ \A s \in Sessions :
            has(uploadSessions', s) =>
              /\ has(uploadSessions, s)
              /\ Session(uploadSessions', heap', s) = Session(uploadSessions, heap, s)]_vars

C9_Witness ==
  /\ resp.op = "sweep" /\ resp.had > 0
  /\ \E f \in resp.folders : FolderEntries(files, f) # {}
  /\ \E s \in Sessions : has(uploadSessions, s)

PayloadsOf(r) == {r.uid + j - 1 : j \in 1 .. Len(r.batch)}

(* C10: once an upload whose batch holds a non-image file has been        *)
(* answered, no file of the batch is on disk and no record of one is in a  *)
(* session's list.                                                         *)
C10_BatchRejected ==
  (resp.op = "upload" /\ ~AllImages(resp.batch)) =>
     /\ \A x \in files : x[3] \notin PayloadsOf(resp)
     /\ \A o \in DOMAIN heap : \A i \in 1 .. Len(heap[o].uploadedFiles) :
          heap[o].uploadedFiles[i].originalName \notin PayloadsOf(resp)
     /\ resp.status # 200 /\ resp.files = <<>>

(* [a.png, b.txt]: a.png had been written and was removed *)
C10_Witness ==
  /\ resp.op = "upload" /\ Len(resp.batch) = 2
  /\ IsImageMime(resp.batch[1]) /\ ~IsImageMime(resp.batch[2])
  /\ resp.unlinked = 1

(* C11: an upload refused because a part is not an image is answered with *)
(* status 400 and with a message other than the one given for a storage    *)
(* error.                                                                  *)
C11_MimeErrorDistinct ==
  (resp.op = "upload" /\ resp.cause = Error("Only image files are allowed!"))
     => /\ resp.status = 400
        /\ resp.error # errorMiddleware(Error("ENOENT")).error

Oversized(batch) == \E i \in 1 .. Len(batch) : batch[i].size > 10 * 1024 * 1024

C13_RejectedNoChange ==
  [][\A r \in Slots :
       (UploadAbort(r) /\ req[r].solo) =>
         /\ SessionView(uploadSessions', heap', req[r].sid) = req[r].before.session
         /\ dirs' = req[r].before.dirs
         /\ files' = req[r].before.files]_vars

(* The uploadedFiles a fetch of sid would report: none for an absent session *)
FileList(reg, hp, sid) == IF has(reg, sid) THEN hp[reg[sid]].uploadedFiles ELSE <<>>

(* C14: in every step the file list registered for a session stays as it  *)
(* is, becomes empty or absent, or is extended at its end by the records   *)
(* of the one upload to that session that the step completes.              *)
C14_FileListEvolution ==
  [][\A sid \in Sessions :
       LET old == FileList(uploadSessions, heap, sid)
           new == FileList(uploadSessions', heap', sid)
       IN  \/ new = old
           \/ new = <<>>
           \/ \E r \in Slots :
                 /\ UploadHandler(r)
                 /\ req[r].sessionId = sid
                 /\ Len(new) > Len(old)
                 /\ SubSeq(new, 1, Len(old)) = old
                 /\ \A i \in (Len(old) + 1) .. Len(new) :
                      new[i].originalName \in PayloadsOf(req[r])]_vars

(* C15: the step in which the currentFolder registered for a session      *)
(* changes from one folder to another is a rotate of that session.         *)
C15_FolderStable ==
  [][\A sid \in Sessions :
       ( /\ has(uploadSessions, sid) /\ has(uploadSessions', sid)
         /\ Session(uploadSessions', heap', sid).currentFolder
              # Session(uploadSessions, heap, sid).currentFolder )
         => Rotate(sid)]_vars

(* C16: the uploadFolder of every FileRecord is the folder of the path    *)
(* under which its file was stored.                                        *)
C16_RecordFolder ==
  \A o \in DOMAIN heap : \A i \in 1 .. Len(heap[o].uploadedFiles) :
    heap[o].uploadedFiles[i].uploadFolder = heap[o].uploadedFiles[i].path[1]

(* C17: when storage.destination resolves the session of an accepted file *)
(* at time now, an unseen sessionId gets a record whose currentFolder is   *)
(* the requested folder if one was sent and the timestamp name of now      *)
(* otherwise, with no files; a registered sessionId keeps its record with  *)
(* its currentFolder and uploadedFiles, whatever folder was requested; in  *)
(* both cases lastActivity becomes now.                                    *)
C17_GetOrCreate ==
  [][\A r \in Slots :
       ( /\ FileEvent(r)
         /\ req[r].idx + 1 <= 20
         /\ IsImageMime(req[r].batch[req[r].idx + 1]) ) =>
         LET sid == req[r].sid
             new == Session(uploadSessions', heap', sid)
         IN  /\ has(uploadSessions', sid)
             /\ req'[r].uploadSession = uploadSessions'[sid]
             /\ new.lastActivity = toISOString(now)
             /\ IF has(uploadSessions, sid)
                THEN /\ uploadSessions'[sid] = uploadSessions[sid]
                     /\ new.currentFolder = Session(uploadSessions, heap, sid).currentFolder
                     /\ new.uploadedFiles = Session(uploadSessions, heap, sid).uploadedFiles
                ELSE /\ new.currentFolder =
                          IF req[r].folder # NoFolder THEN req[r].folder
                          ELSE generateTimestampFolder(now)
                     /\ new.uploadedFiles = <<>>
                     /\ new.createdAt = toISOString(now)]_vars

(* a session created with the folder the client asked for, which is not   *)
(* the timestamp name of the moment                                        *)
C17_Witness ==
  \E r \in Slots :
    /\ req[r].pc = "recv" /\ Len(req[r].stored) = 1 /\ req[r].folder # NoFolder
    /\ has(uploadSessions, req[r].sid)
    /\ Session(uploadSessions, heap, req[r].sid).currentFolder = req[r].folder
    /\ Session(uploadSessions, heap, req[r].sid).createdAt = toISOString(now)
    /\ req[r].folder # generateTimestampFolder(now)

(* C18: two distinct registered sessions never have the same              *)
(* currentFolder.                                                          *)
C18_FoldersDisjoint ==
  \A a \in Sessions, b \in Sessions :
    (a # b /\ has(uploadSessions, a) /\ has(uploadSessions, b))
      => Session(uploadSessions, heap, a).currentFolder
           # Session(uploadSessions, heap, b).currentFolder

(* C19: under the hourly schedule no registered session has been idle for *)
(* more than 24 h + 1 h, where only what sets lastActivity counts: a fetch *)
(* leaves the lastActivity of every session as it is.                      *)
C19_IdleEvicted ==
  /\ [](\A s \in Sessions :
          has(uploadSessions, s) =>
            Idle(heap, uploadSessions[s], now) <= 24 * HOUR + HOUR)
  /\ [][\A sid \in Sessions :
          FetchSession(sid) =>
            \A s \in Sessions :
              has(uploadSessions, s) =>
                /\ has(uploadSessions', s)
                /\ Session(uploadSessions', heap', s).lastActivity
                     = Session(uploadSessions, heap, s).lastActivity]_vars

(* a session fetched when it has been idle for exactly 25 h, at the       *)
(* instant the timer is due                                                *)
C19_Witness ==
  /\ resp.op = "fetch" /\ resp.session # <<>>
  /\ has(uploadSessions, resp.sid)
  /\ Idle(heap, uploadSessions[resp.sid], now) = 24 * HOUR + HOUR
  /\ now = sweepDue

(* C20: an upload request without files is answered 400 'No files         *)
(* uploaded', a message no other error has; the step that answers it       *)
(* leaves the Map, the session objects and the disk as they are, and when  *)
(* nothing else ran during the request its session and the disk are as     *)
(* they were when it began.                                                *)
C20_NoFiles ==
  [][\A r \in Slots :
       (UploadHandler(r) /\ req[r].batch = <<>>) =>
         /\ resp'.status = 400 /\ resp'.error = "No files uploaded"
         /\ \A e \in {MulterError("LIMIT_FILE_SIZE"), MulterError("LIMIT_FILE_COUNT"),
                       Error("ENOENT")} : resp'.error # errorMiddleware(e).error
         /\ uploadSessions' = uploadSessions /\ heap' = heap
         /\ dirs' = dirs /\ files' = files
         /\ req[r].solo =>
              /\ SessionView(uploadSessions', heap', req[r].sid) = req[r].before.session
              /\ dirs' = req[r].before.dirs /\ files' = req[r].before.files]_vars

C20_Witness ==
  /\ resp.op = "upload" /\ resp.batch = <<>> /\ resp.solo
  /\ resp.status = 400 /\ resp.error = "No files uploaded"
  /\ ~has(uploadSessions, resp.sid)

(* C21: a clear of a session that is not registered answers success and   *)
(* leaves the Map, the session objects, the folders and the files as they  *)
(* are.                                                                    *)
C21_ClearAbsent ==
  [][\A sid \in Sessions, outcome \in ClearOutcomes, gone \in SUBSET files :
       (ClearSession(sid, outcome, gone) /\ ~has(uploadSessions, sid)) =>
         /\ resp'.status = 200
         /\ uploadSessions' = uploadSessions /\ heap' = heap
         /\ dirs' = dirs /\ files' = files]_vars

(* a session already cleared is cleared again while files of an earlier   *)
(* folder of it are on disk                                                *)
C21_Witness ==
  /\ resp.op = "clear" /\ resp.folders = {} /\ resp.status = 200
  /\ ~has(uploadSessions, resp.sid)
  /\ files # {} /\ dirs # {}

(* ---------------------------------------------------------------------- *)
(* The folder namer on its own: servers started on the last day of a       *)
(* month, of a leap February, of a year, of the year 9999; the clock jumps *)
(* to the instants around which a printed field gains a digit or wraps,    *)
(* and sessions are rotated there, which names a folder from the clock.    *)

(* 1970-09-30, 1972-02-29, 1999-12-31, 9999-12-31 *)
NamerEpochs == {272, 789, 10956, 2932896}

Rollovers == {10, 100, SECOND, MINUTE, 10 * HOUR, DAY, 10 * DAY}

NamerInstants == {r - e : r \in Rollovers, e \in 0..MaxMs}

InitNamer == \E e \in NamerEpochs : Start(e)

NextNamer ==
  \/ \E t \in NamerInstants : t > now /\ Tick(t - now, NamerInstants)
  \/ \E sid \in Sessions : Rotate(sid)

SpecNamer == InitNamer /\ [][NextNamer]_vars

(* a < b as JavaScript strings: code unit by code unit, a proper prefix    *)
(* being smaller                                                           *)
LexLess(a, b) ==
  \/ Len(a) < Len(b) /\ \A j \in 1..Len(a) : a[j] = b[j]
  \/ \E i \in 1..Len(a) :
       /\ i <= Len(b)
       /\ a[i] < b[i]
       /\ \A j \in 1..(i - 1) : a[j] = b[j]

(* C22: the folder a session was given at its creation is the name of the *)
(* clock reading of that creation and of nothing else; two sessions        *)
(* created in the same millisecond have the same folder name, two created  *)
(* in different milliseconds have different names, and while the year has  *)
(* four digits the code units of the name of the one created earlier are   *)
(* lexicographically smaller.                                              *)
C22_NamerOrder ==
  \A a, b \in Sessions :
    (has(uploadSessions, a) /\ has(uploadSessions, b)) =>
      LET A  == heap[uploadSessions[a]]
          B  == heap[uploadSessions[b]]
          ta == DateParse(A.createdAt)
          tb == DateParse(B.createdAt)
      IN  /\ A.currentFolder = generateTimestampFolder(ta)
          /\ ta = tb => A.currentFolder = B.currentFolder
          /\ ta # tb => A.currentFolder # B.currentFolder
          /\ (ta < tb /\ getUTCFullYear(tb) <= 9999) =>
               LexLess(TemplateCodes(ta), TemplateCodes(tb))

(* two sessions created one millisecond apart, in different months         *)
C22_Witness ==
  \E a, b \in Sessions :
    /\ has(uploadSessions, a) /\ has(uploadSessions, b)
    /\ LET ta == DateParse(heap[uploadSessions[a]].createdAt)
           tb == DateParse(heap[uploadSessions[b]].createdAt)
       IN  /\ tb = ta + 1
           /\ getUTCMonth(ta) # getUTCMonth(tb)
           /\ getUTCFullYear(tb) <= 9999
           /\ heap[uploadSessions[a]].currentFolder = generateTimestampFolder(ta)
           /\ heap[uploadSessions[b]].currentFolder = generateTimestampFolder(tb)
           /\ LexLess(TemplateCodes(ta), TemplateCodes(tb))

(* ---------------------------------------------------------------------- *)
(* One client over more than a day: uploads, fetches, downloads, rotates,  *)
(* clears, and the sweep, with a clock that can pass the time to live.     *)

LifeInstants == {j * (TTL + 1) + m : j \in 0 .. MaxJumps, m \in 0 .. MaxMs}

DownloadNames == {ImageName(n, ".png") : n \in 1 .. MaxParts}

LifeBatches == {b \in Batches(MaxParts) : b # <<>> /\ \A i \in 1 .. Len(b) : fileFilter(b[i])}

NextLife ==
  \/ \E d \in {1, TTL + 1} : Tick(d, LifeInstants)
  \/ FetchSession("s1")
  \/ \E name \in DownloadNames : Download("s1", name)
  \/ Rotate("s1")
  \/ \E gone \in SUBSET files : ClearSession("s1", "ok", gone)
  \/ Reap
  \/ \E batch \in LifeBatches : StartUpload(1, "s1", NoFolder, batch)
  \/ FileEvent(1)
  \/ \E k \in 1 .. MaxParts : WriteFile(1, k)
  \/ UploadHandler(1)
  \/ UploadAbort(1)

SpecLife == Init /\ [][NextLife]_vars

AllLastActivity(hp) == [o \in DOMAIN hp |-> hp[o].lastActivity]

(* C23, as stated: after a fetch, a download, a rotate or the handler of  *)
(* an upload that found the session registered, the lastActivity of the    *)
(* session is the time of that step.                                       *)
C23_EveryAccessTouches ==
  [][\A sid \in Sessions :
       ( /\ has(uploadSessions, sid)
         /\ \/ FetchSession(sid)
            \/ \E name \in DownloadNames : Download(sid, name)
            \/ Rotate(sid)
            \/ \E r \in Slots : UploadHandler(r) /\ req[r].sid = sid ) =>
         /\ has(uploadSessions', sid)
         /\ heap'[uploadSessions'[sid]].lastActivity = toISOString(now)]_vars

(* C23, amended: lastActivity is written by getUploadSession and by       *)
(* nothing else.  A rotate and each file of an upload that reaches the     *)
(* storage leave the session registered with lastActivity at the time of   *)
(* that step; a fetch, a download, and the handler that ends an upload     *)
(* leave the lastActivity of every session object as it was.               *)
C23_GetOrCreateTouches ==
  [][/\ \A sid \in Sessions :
          Rotate(sid) =>
            /\ has(uploadSessions', sid)
            /\ heap'[uploadSessions'[sid]].lastActivity = toISOString(now)
     /\ \A r \in Slots :
          (FileEvent(r) /\ req'[r].stored # req[r].stored) =>
            /\ has(uploadSessions', req[r].sid)
            /\ req'[r].uploadSession = uploadSessions'[req[r].sid]
            /\ heap'[uploadSessions'[req[r].sid]].lastActivity = toISOString(now)
     /\ \A sid \in Sessions :
          (FetchSession(sid) \/ \E name \in DownloadNames : Download(sid, name)) =>
            /\ uploadSessions' = uploadSessions
            /\ AllLastActivity(heap') = AllLastActivity(heap)
     /\ \A r \in Slots :
          UploadHandler(r) =>
            \A o \in (DOMAIN heap) \cap (DOMAIN heap') :
              heap'[o].lastActivity = heap[o].lastActivity]_vars

(* a file of a registered session is served more than a millisecond after *)
(* the session's last activity, which stays what it was                    *)
C23_Witness ==
  /\ resp.op = "download" /\ resp.status = 200
  /\ has(uploadSessions, resp.sid)
  /\ DateParse(heap[uploadSessions[resp.sid]].lastActivity) < now

(* C24: when the unlink of one file fails during a clear, that file is    *)
(* the only one of the session's folder that is left: every other file of  *)
(* the folder has been deleted.                                            *)
C24_FailureConfined ==
  [][\A sid \in Sessions, gone \in SUBSET files :
       (ClearSession(sid, "unlink", gone) /\ has(uploadSessions, sid)) =>
         Cardinality(FolderEntries(files', Session(uploadSessions, heap, sid).currentFolder)) <= 1]_vars

Suffix(s, n) == SubSeq(s, Len(s) - n + 1, Len(s))

(* C25: whatever ran during an upload, sweeps included, when the upload   *)
(* answers success its session is registered and the uploadedFiles of the  *)
(* registered session end with the records of the answer.                  *)
C25_SweepKeepsUpload ==
  [][\A r \in Slots :
       (UploadHandler(r) /\ resp'.status = 200) =>
         /\ has(uploadSessions', resp'.sid)
         /\ resp'.sid = req[r].sid
         /\ resp'.files # <<>>
         /\ Len(resp'.files) <= Len(heap'[uploadSessions'[resp'.sid]].uploadedFiles)
         /\ Suffix(heap'[uploadSessions'[resp'.sid]].uploadedFiles, Len(resp'.files))
              = resp'.files]_vars

(* an upload of two files has answered success after a sweep evicted its  *)
(* session while it was in flight                                          *)
C25_Witness ==
  /\ resp.op = "upload" /\ resp.status = 200 /\ resp.swept
  /\ Len(resp.files) = 2
  /\ has(uploadSessions, resp.sid)
  /\ Suffix(heap[uploadSessions[resp.sid]].uploadedFiles, 2) = resp.files

(* C26: an upload that answers success answers one record for each file   *)
(* of the request, in the order of the request, each with the name and     *)
(* path the file was stored under; these records are appended, in that     *)
(* order, to the uploadedFiles of the request's session, which is the      *)
(* registered one afterwards; uploadFolder is the currentFolder of that    *)
(* session, and totalFilesInSession is the length of its uploadedFiles,    *)
(* which is also the totalFiles a fetch answers next.                      *)
C26_ResponseConsistent ==
  [][\A r \in Slots :
       (UploadHandler(r) /\ resp'.status = 200) =>
         LET q    == req[r]
             sess == heap'[uploadSessions'[q.sid]]
         IN  /\ Len(resp'.files) = Len(q.batch)
             /\ \A i \in 1 .. Len(q.batch) :
                  /\ resp'.files[i].originalName = Payload(q, i)
                  /\ resp'.files[i].mimetype = q.batch[i].mimetype
                  /\ resp'.files[i].filename = StoredEntry(q, i).filename
                  /\ resp'.files[i].path =
                       <<StoredEntry(q, i).destination, StoredEntry(q, i).filename>>
                  /\ resp'.files[i].sessionId = q.sid
             /\ has(uploadSessions', q.sid)
             /\ uploadSessions'[q.sid] = q.uploadSession
             /\ sess.uploadedFiles = heap[q.uploadSession].uploadedFiles \o resp'.files
             /\ resp'.uploadFolder = sess.currentFolder
             /\ resp'.total = Len(sess.uploadedFiles)
             /\ SessionView(uploadSessions', heap', q.sid)[1].totalFiles = resp'.total]_vars

(* the second upload of a session has answered, with two records in all   *)
C26_Witness ==
  /\ resp.op = "upload" /\ resp.status = 200
  /\ Len(resp.files) = 1 /\ resp.total = 2
  /\ has(uploadSessions, resp.sid)
  /\ Len(heap[uploadSessions[resp.sid]].uploadedFiles) = 2
  /\ heap[uploadSessions[resp.sid]].uploadedFiles[2] = resp.files[1]

(* C27: when the handler of an upload runs after a rotate or a clear of   *)
(* its session was served during the upload - the Map holds another        *)
(* session object than the request's, or none - the rotated session stays  *)
(* registered as the rotate left it, and a cleared session is not          *)
(* registered again with a folder that does not exist.                     *)
C27_NotUndone ==
  [][\A r \in Slots :
       (UploadHandler(r) /\ resp'.status = 200) =>
         LET sid == req[r].sid
         IN  /\ (has(uploadSessions, sid) /\ uploadSessions[sid] # req[r].uploadSession) =>
                  SessionView(uploadSessions', heap', sid) =
                    SessionView(uploadSessions, heap, sid)
             /\ ~has(uploadSessions, sid) =>
                  ~( /\ has(uploadSessions', sid)
                     /\ ~existsSync(dirs, Session(uploadSessions', heap', sid).currentFolder) )]_vars

(* C28: every record of every registered session names a file that is on  *)
(* disk, under the record's stored name, in the record's folder.           *)
C28_RecordedFilesExist ==
  \A sid \in Sessions :
    has(uploadSessions, sid) =>
      \A i \in 1 .. Len(Session(uploadSessions, heap, sid).uploadedFiles) :
        LET record == Session(uploadSessions, heap, sid).uploadedFiles[i]
        IN  record.filename \in readdirSync(files, record.uploadFolder)

(* C29: a download answers 200 or 404; it sends a file exactly when the   *)
(* session is registered, one of its records has the requested name and    *)
(* the file is on disk in that record's folder, and what it sends is that  *)
(* file; a download that follows a rotate or a clear of the session, or a  *)
(* sweep that evicted it, answers 404; and a download leaves the Map, the  *)
(* session objects and the disk as they are.                               *)
C29_DownloadScoped ==
  [][\A sid \in Sessions, name \in DownloadNames :
       Download(sid, name) =>
         LET records == IF has(uploadSessions, sid)
                        THEN Session(uploadSessions, heap, sid).uploadedFiles
                        ELSE <<>>
             served  == {<<records[i].uploadFolder, name>> : i \in
                           {j \in 1 .. Len(records) :
                              /\ records[j].filename = name
                              /\ name \in readdirSync(files, records[j].uploadFolder)}}
         IN  /\ resp'.status \in {200, 404}
             /\ resp'.status = 200 <=> served # {}
             /\ resp'.status = 200 => resp'.sent \in served
             /\ ( \/ resp.op \in {"rotate", "clear"} /\ resp.sid = sid
                  \/ resp.op = "sweep" /\ sid \in resp.evicted ) => resp'.status = 404
             /\ uploadSessions' = uploadSessions /\ heap' = heap
             /\ dirs' = dirs /\ files' = files]_vars

(* a download is refused for a name no record of the registered session   *)
(* has, while a file of that name, of an earlier folder of the session, is *)
(* on disk                                                                 *)
C29_Witness ==
  /\ resp.op = "download" /\ resp.status = 404 /\ resp.error = "File not found"
  /\ has(uploadSessions, resp.sid)
  /\ \E x \in files : /\ x[2] = resp.filename
                       /\ x[1] # Session(uploadSessions, heap, resp.sid).currentFolder

(* ---------------------------------------------------------------------- *)
(* Resuming a folder: one client, two requests at a time, uploads of one   *)
(* image or of an image followed by a text file, which may name a folder   *)
(* that exists; between two requests the clock can pass the time to live,  *)
(* and the sweep runs.                                                     *)

ResumeInstants == {j * (TTL + 1) : j \in 0 .. MaxJumps}

ResumeBatches ==
  {b \in Batches(2) : /\ b # <<>>
                      /\ fileFilter(b[1])
                      /\ Len(b) = 2 => ~fileFilter(b[2])}

NextResume ==
  \/ InFlight(req) = {} /\ Tick(TTL + 1, ResumeInstants)
  \/ Reap
  \/ \E r \in Slots, rf \in {NoFolder} \cup KnownFolders, batch \in ResumeBatches :
        /\ nextPart + Len(batch) <= MaxResume + 1
        /\ BeginUpload(r, "s1", rf, batch)
  \/ \E r \in Slots : FileEvent(r)
  \/ \E r \in Slots, k \in 1 .. 2 : WriteFile(r, k)
  \/ \E r \in Slots : UploadHandler(r)
  \/ \E r \in Slots : UploadAbort(r)

SpecResume == Init /\ [][NextResume]_vars

(* C30: a file of an upload that names an existing folder and finds its   *)
(* session not registered leaves the session registered with that folder   *)
(* and is numbered one more than the image_ files the folder holds; and    *)
(* no write of such an upload, when nothing else ran during it, replaces a *)
(* file that another upload wrote.                                         *)
C30_ResumeKeepsFiles ==
  [][\A r \in Slots :
       /\ ( /\ FileEvent(r)
            /\ req'[r].stored # req[r].stored
            /\ ~has(uploadSessions, req[r].sid)
            /\ req[r].folder # NoFolder
            /\ existsSync(dirs, req[r].folder) ) =>
            /\ has(uploadSessions', req[r].sid)
            /\ Session(uploadSessions', heap', req[r].sid).currentFolder = req[r].folder
            /\ req'[r].stored[Len(req'[r].stored)].destination = req[r].folder
            /\ req'[r].stored[Len(req'[r].stored)].filename[2] =
                 Cardinality({f \in readdirSync(files, req[r].folder) :
                                startsWithImage(f)}) + 1
       /\ \A k \in 1 .. 2 :
            (WriteFile(r, k) /\ req[r].resumed /\ req[r].solo) =>
              \A x \in files \ files' : x[3] \in PayloadsOf(req[r])]_vars

====
